---- MODULE Spec2Model ----
(***************************************************************************)
(* Model of the ceph_vm_exporter mirror collectors.                        *)
(*                                                                         *)
(* The repository holds three builds of the exporter:                      *)
(*   "cluster"  src/main.go:1-242      rbd ls + per-image status, cluster  *)
(*   "peer4"    src/main.go:244-405    peer description, 4 samples         *)
(*   "modelist" src/unnamed/part_000   mirror pool status + image status   *)
(* src/unnamed/part_001 is a further text of the peer-description build    *)
(* that does not compile (it reads peer.State and peer.LastUpdate, which   *)
(* the element type of PeerSites does not declare): no build comes of it.  *)
(* Its RunRBD and its Collect up to the fourth send are those of "peer4".  *)
(* A scrape (one call of Collect) is modelled from one blocking point to   *)
(* the next: the external rbd call and the send on the metric channel.     *)
(***************************************************************************)
EXTENDS Integers, Sequences, FiniteSets, TLC

VARIABLES variant, flags, Debug, proc, scr

vars == <<variant, flags, Debug, proc, scr>>

----------------------------------------------------------------------------
(* Bounds of the model *)

\* longest image list a pool-level payload carries
MaxImages == 2

\* longest image list of the scrapes that run side by side in SpecConc
ConcImages == 1

\* images a pool-level payload lists at most in SpecLive
LiveImages == 2

----------------------------------------------------------------------------
(* float64 values, kept as reduced fractions num/den with den > 0 *)

RECURSIVE GCD(_, _)
GCD(a, b) == IF b = 0 THEN a ELSE GCD(b, a % b)

Abs(n) == IF n < 0 THEN -n ELSE n

Reduce(n, d) ==
    LET g == GCD(Abs(n), Abs(d))
        s == IF d < 0 THEN -1 ELSE 1
    IN  [num |-> s * (n \div g), den |-> s * (d \div g)]

\* a JSON number decoded into a float64
Float(n) == [num |-> n, den |-> 1]

\* the float64 division a / b, b # 0
FDiv(a, b) == Reduce(a.num * b.den, a.den * b.num)

FPositive(a) == a.num > 0

\* the literal 1048576 of the byte -> MiB conversions
MiB == 1048576

----------------------------------------------------------------------------
(* Configuration *)

\* default of the -pool flag
DefaultPool == "ceph-pool1"

Variants == {"cluster", "peer4", "modelist"}

\* builds whose Collect issues one detail call per image
TwoCall(v) == v \in {"cluster", "modelist"}

\* values of the `cluster` query parameter of a request
Clusters == {"", "backup"}

ImageNames == <<"vm1", "vm2", "vm3", "vm4">>

----------------------------------------------------------------------------
(* stdout of the rbd tool, as encoding/json sees it *)

InvalidJSON == [json |-> "invalid"]
JArray(items) == [json |-> "array", items |-> items]
JObject(fields) == [json |-> "object", fields |-> fields]

\* a nil pointer of a decoded struct
Nil == [isNil |-> TRUE]

\* a string / number member of a JSON object, zero value when absent
StrField(o, k) == IF k \in DOMAIN o THEN o[k] ELSE ""
NumField(o, k) == IF k \in DOMAIN o THEN Float(o[k]) ELSE Float(0)

ReplayingStats(o) ==
    [BytesPerSecond       |-> NumField(o, "bytes_per_second"),
     EntriesBehindPrimary |-> NumField(o, "entries_behind_primary"),
     EntriesPerSecond     |-> NumField(o, "entries_per_second"),
     SecondsUntilSynced   |-> NumField(o, "seconds_until_synced")]

SnapshotStats(o) ==
    [SyncingPercent          |-> NumField(o, "syncing_percent"),
     SecondsUntilSynced      |-> NumField(o, "seconds_until_synced"),
     BytesPerSnapshot        |-> NumField(o, "bytes_per_snapshot"),
     LastSnapshotBytes       |-> NumField(o, "last_snapshot_bytes"),
     LastSnapshotSyncSeconds |-> NumField(o, "last_snapshot_sync_seconds")]

\* snapshotStats of the peer-description build
PeerSnapshotStats(o) ==
    [BytesPerSecond          |-> NumField(o, "bytes_per_second"),
     BytesPerSnapshot        |-> NumField(o, "bytes_per_snapshot"),
     LastSnapshotBytes       |-> NumField(o, "last_snapshot_bytes"),
     LastSnapshotSyncSeconds |-> NumField(o, "last_snapshot_sync_seconds")]

\* json.Unmarshal(raw, &ms) into a zero MirrorStatus
UnmarshalMirrorStatus(raw) ==
    IF raw.json # "object" THEN [err |-> TRUE, v |-> Nil]
    ELSE LET f == raw.fields IN
         [err |-> FALSE,
          v   |-> [Mode            |-> StrField(f, "mode"),
                   ReplayingStatus |-> IF "replaying_status" \in DOMAIN f
                                       THEN ReplayingStats(f.replaying_status)
                                       ELSE Nil,
                   SnapshotStatus  |-> IF "snapshot_status" \in DOMAIN f
                                       THEN SnapshotStats(f.snapshot_status)
                                       ELSE Nil]]

\* json.Unmarshal(imgListRaw, &images), images []string
UnmarshalImages(raw) ==
    IF raw.json # "array" THEN [err |-> TRUE, v |-> <<>>]
    ELSE [err |-> FALSE,
          v   |-> [k \in 1..Len(raw.items) |-> [Name |-> raw.items[k]]]]

\* json.Unmarshal(raw, &ps), ps PoolStatus of the mode-list build
UnmarshalPoolStatus(raw) ==
    IF raw.json # "object" THEN [err |-> TRUE, v |-> <<>>]
    ELSE LET f == raw.fields
             l == IF "images" \in DOMAIN f THEN f.images ELSE <<>>
         IN  [err |-> FALSE,
              v   |-> [k \in 1..Len(l) |->
                         [Name |-> StrField(l[k], "name"),
                          Mode |-> StrField(l[k], "mirror_image_mode")]]]

\* an element of PeerSites: only the description is declared, every other key
\* of the payload is dropped
PeerSite(o) ==
    [Description |-> IF "description" \in DOMAIN o THEN o.description ELSE <<>>]

\* json.Unmarshal(raw, &ps), ps poolStatus of the peer-description build
UnmarshalPeerPoolStatus(raw) ==
    IF raw.json # "object" THEN [err |-> TRUE, v |-> <<>>]
    ELSE LET f == raw.fields
             l == IF "images" \in DOMAIN f THEN f.images ELSE <<>>
             sites(e) == IF "peer_sites" \in DOMAIN e THEN e.peer_sites ELSE <<>>
         IN  [err |-> FALSE,
              v   |-> [k \in 1..Len(l) |->
                         [Name      |-> StrField(l[k], "name"),
                          PeerSites |-> [j \in 1..Len(sites(l[k])) |->
                                           PeerSite(sites(l[k])[j])]]]]

\* the pool-level decode of each build
UnmarshalPool(v, raw) ==
    CASE v = "cluster"  -> UnmarshalImages(raw)
      [] v = "modelist" -> UnmarshalPoolStatus(raw)
      [] OTHER          -> UnmarshalPeerPoolStatus(raw)

----------------------------------------------------------------------------
(* Peer descriptions.  A description is a sequence of tokens: a run of     *)
(* text without "{", a well-formed JSON object text, or a "{" that opens   *)
(* text that is no JSON value.                                             *)

Text == [k |-> "text"]
Brace == [k |-> "brace"]
Object(fields) == [k |-> "object", fields |-> fields]

\* strings.Index(desc, "{"): position of the first "{", -1 when there is none
RECURSIVE IndexFrom(_, _)
IndexFrom(desc, i) ==
    IF i > Len(desc) THEN -1
    ELSE IF desc[i].k \in {"object", "brace"} THEN i - 1
    ELSE IndexFrom(desc, i + 1)

Index(desc) == IndexFrom(desc, 1)

\* desc[idx:]
SliceFrom(desc, idx) == SubSeq(desc, idx + 1, Len(desc))

\* json.Unmarshal([]byte(desc[idx:]), &stats): one JSON value and nothing after it
UnmarshalStats(frag) ==
    IF Len(frag) = 1 /\ frag[1].k = "object"
    THEN [err |-> FALSE, v |-> PeerSnapshotStats(frag[1].fields)]
    ELSE [err |-> TRUE, v |-> Nil]

----------------------------------------------------------------------------
(* Metric samples: prometheus.MustNewConstMetric(desc, GaugeValue, v, l...) *)
(* desc is the descriptor's name without the MetricPrefix.                 *)

Sample(desc, value, labels) == [desc |-> desc, value |-> value, labels |-> labels]

\* label values of one image: {pool, image}, or {cluster, pool, image}
LabelValues(v, cluster, pool, img) ==
    IF v = "cluster" THEN <<cluster, pool, img>> ELSE <<pool, img>>

\* a build that guards the division with != 0
SnapshotSpeedNonZero(bytes, secs) ==
    IF secs.num # 0 THEN FDiv(FDiv(bytes, secs), Float(MiB)) ELSE Float(0)

\* speed of the last snapshot sync in MiB/s, 0.0 unless the duration is positive
SnapshotSpeed(bytes, secs) ==
    IF FPositive(secs) THEN FDiv(FDiv(bytes, secs), Float(MiB)) ELSE Float(0)

\* a build that sends the journal speed in bytes per second
JournalSamplesRawSpeed(lbl, rs) ==
    << Sample("journal_speed_mib_per_sec", rs.BytesPerSecond, lbl),
       Sample("journal_entries_behind_primary", rs.EntriesBehindPrimary, lbl),
       Sample("journal_entries_per_sec", rs.EntriesPerSecond, lbl),
       Sample("journal_seconds_until_synced", rs.SecondsUntilSynced, lbl) >>

\* the four sends of case "journal"
JournalSamples(lbl, rs) ==
    << Sample("journal_speed_mib_per_sec", FDiv(rs.BytesPerSecond, Float(MiB)), lbl),
       Sample("journal_entries_behind_primary", rs.EntriesBehindPrimary, lbl),
       Sample("journal_entries_per_sec", rs.EntriesPerSecond, lbl),
       Sample("journal_seconds_until_synced", rs.SecondsUntilSynced, lbl) >>

\* the six sends of case "snapshot"
SnapshotSamples(lbl, ss) ==
    << Sample("snapshot_sync_percent", ss.SyncingPercent, lbl),
       Sample("snapshot_speed_mib_per_sec",
              SnapshotSpeed(ss.LastSnapshotBytes, ss.LastSnapshotSyncSeconds), lbl),
       Sample("snapshot_seconds_until_synced", ss.SecondsUntilSynced, lbl),
       Sample("snapshot_bytes_per_snapshot_mib", FDiv(ss.BytesPerSnapshot, Float(MiB)), lbl),
       Sample("snapshot_last_snapshot_bytes_mib", FDiv(ss.LastSnapshotBytes, Float(MiB)), lbl),
       Sample("snapshot_last_snapshot_sync_seconds", ss.LastSnapshotSyncSeconds, lbl) >>

\* a build that maps by the sub-objects present, whatever ms.Mode says
StatusSamplesByPresence(lbl, ms) ==
    IF ms.ReplayingStatus # Nil THEN JournalSamples(lbl, ms.ReplayingStatus)
    ELSE IF ms.SnapshotStatus # Nil THEN SnapshotSamples(lbl, ms.SnapshotStatus)
    ELSE <<>>

\* a build that falls back to the other sub-object when the one of the mode is absent
StatusSamplesFallback(lbl, ms) ==
    CASE ms.Mode = "journal" ->
           IF ms.ReplayingStatus # Nil THEN JournalSamples(lbl, ms.ReplayingStatus)
           ELSE IF ms.SnapshotStatus # Nil THEN SnapshotSamples(lbl, ms.SnapshotStatus)
           ELSE <<>>
      [] ms.Mode = "snapshot" ->
           IF ms.SnapshotStatus # Nil THEN SnapshotSamples(lbl, ms.SnapshotStatus)
           ELSE IF ms.ReplayingStatus # Nil THEN JournalSamples(lbl, ms.ReplayingStatus)
           ELSE <<>>
      [] OTHER -> <<>>

\* switch ms.Mode of the two-call builds: the samples one decoded status sends
StatusSamples(lbl, ms) ==
    CASE ms.Mode = "journal" ->
           IF ms.ReplayingStatus = Nil THEN <<>>
           ELSE JournalSamples(lbl, ms.ReplayingStatus)
      [] ms.Mode = "snapshot" ->
           IF ms.SnapshotStatus = Nil THEN <<>>
           ELSE SnapshotSamples(lbl, ms.SnapshotStatus)
      [] OTHER -> <<>>

\* the sends of one peer-description image once its stats are decoded
PeerSamples(v, lbl, stats, peer) ==
    << Sample("snapshot_speed_mib_per_sec",
              SnapshotSpeed(stats.LastSnapshotBytes, stats.LastSnapshotSyncSeconds), lbl),
       Sample("snapshot_bytes_per_snapshot_mib", FDiv(stats.BytesPerSnapshot, Float(MiB)), lbl),
       Sample("snapshot_last_snapshot_bytes_mib", FDiv(stats.LastSnapshotBytes, Float(MiB)), lbl),
       Sample("snapshot_last_snapshot_sync_seconds", stats.LastSnapshotSyncSeconds, lbl) >>

\* a build without the idx == -1 check: zero stats are sent for a description
\* that holds no "{"
PeerImageSamplesNoIndexCheck(v, lbl, img) ==
    IF Len(img.PeerSites) = 0 THEN <<>>
    ELSE LET peer == img.PeerSites[1]
             idx  == Index(peer.Description)
             st   == UnmarshalStats(SliceFrom(peer.Description, idx))
         IN  IF idx = -1 THEN PeerSamples(v, lbl, PeerSnapshotStats([none |-> 0]), peer)
             ELSE IF st.err THEN <<>>
             ELSE PeerSamples(v, lbl, st.v, peer)

\* the loop body of the peer-description build for one image
PeerImageSamples(v, lbl, img) ==
    IF Len(img.PeerSites) = 0 THEN <<>>
    ELSE LET peer == img.PeerSites[1]
             idx  == Index(peer.Description)
         IN  IF idx = -1 THEN <<>>
             ELSE LET st == UnmarshalStats(SliceFrom(peer.Description, idx))
                  IN  IF st.err THEN <<>>
                      ELSE PeerSamples(v, lbl, st.v, peer)


----------------------------------------------------------------------------
(* Status Fetcher: runRBD (cluster build) and RunRBD (the other builds)    *)

\* one command-line argument; fmt.Sprintf("%s/%s", pool, img) keeps its parts
Arg(a) == <<a>>
Sprintf(pool, img) == <<pool, "/", img>>

\* runRBD: the leading --cluster <name> of a non-empty cluster
ClusterArgs(cluster, args) ==
    IF cluster # "" THEN <<Arg("--cluster"), Arg(cluster)>> \o args ELSE args

\* arguments of the pool-level call
PoolArgs(v, cluster, pool) ==
    IF v = "cluster"
    THEN ClusterArgs(cluster, <<Arg("ls"), Arg("-p"), Arg(pool), Arg("--format"), Arg("json")>>)
    ELSE <<Arg("mirror"), Arg("pool"), Arg("status"), Arg(pool),
           Arg("--verbose"), Arg("--format"), Arg("json")>>

\* arguments of the per-image detail call
DetailArgs(v, cluster, pool, img) ==
    LET a == <<Arg("mirror"), Arg("image"), Arg("status"), Sprintf(pool, img),
               Arg("--format"), Arg("json")>>
    IN  IF v = "cluster" THEN ClusterArgs(cluster, a) ELSE a

\* no bytes at all on stdout
EmptyOut == [json |-> "empty"]

\* an error value: its message (what %v prints) and, for an *exec.ExitError,
\* the stderr text cmd.Output stores in its Stderr field
Err(msg, text) == [msg |-> msg, Stderr |-> text]

\* how the end of ctx met a process in flight:
\*   "none"   ctx was not done while the process ran;
\*   "killed" the process was running and the kill ended it;
\*   "ended"  the process had ended and was reaped before the kill was tried;
\*   "late"   the process had ended but the kill still went through (Go >= 1.20
\*            then reports ctx.Err() for a process that exited with status 0)
Hits == {"killed", "ended", "late"}

\* a build that runs the tool with cmd.CombinedOutput(): stderr lands in out
CmdOutputCombined(stderrSet, started, hit, tool) ==
    LET mixed == IF tool.stderr = "" THEN tool.stdout
                 ELSE [json |-> "invalid", stderr |-> tool.stderr]
    IN  IF tool.exit = "nostart"
        THEN [out |-> EmptyOut,
              err |-> Err("exec: \"rbd\": executable file not found in $PATH", ""),
              stderr |-> ""]
        ELSE IF ~started
        THEN [out |-> EmptyOut, err |-> Err("context deadline exceeded", ""), stderr |-> ""]
        ELSE IF hit = "killed"
        THEN [out |-> mixed, err |-> Err("signal: killed", ""), stderr |-> tool.stderr]
        ELSE IF hit = "late" /\ tool.exit = "zero"
        THEN [out |-> mixed, err |-> Err("context deadline exceeded", ""),
              stderr |-> tool.stderr]
        ELSE [out    |-> mixed,
              err    |-> IF tool.exit = "zero" THEN Nil ELSE Err("exit status 1", ""),
              stderr |-> tool.stderr]

\* cmd.Output() under exec.CommandContext(ctx, "rbd", args...).
\*   stderrSet: the caller assigned cmd.Stderr (RunRBD does, runRBD does not);
\*   started:   ctx was not yet done when the command was started;
\*   hit:       how the end of ctx met the process, "none" when it did not;
\*   tool:      what the rbd process did until it ended: exit, stdout, stderr.
\* Returns out, err and the bytes the process wrote to stderr.  Start returns
\* the look-up error of a tool that is not there before it looks at ctx; a
\* killed process leaves the bytes it had written; only an *exec.ExitError
\* holds stderr text, and only when the caller left cmd.Stderr nil.
CmdOutput(stderrSet, started, hit, tool) ==
    IF tool.exit = "nostart"
    THEN [out |-> EmptyOut,
          err |-> Err("exec: \"rbd\": executable file not found in $PATH", ""),
          stderr |-> ""]
    ELSE IF ~started
    THEN [out |-> EmptyOut, err |-> Err("context deadline exceeded", ""), stderr |-> ""]
    ELSE IF hit = "killed"
    THEN [out    |-> tool.stdout,
          err    |-> Err("signal: killed", IF stderrSet THEN "" ELSE tool.stderr),
          stderr |-> tool.stderr]
    ELSE IF hit = "late" /\ tool.exit = "zero"
    THEN [out |-> tool.stdout, err |-> Err("context deadline exceeded", ""),
          stderr |-> tool.stderr]
    ELSE IF tool.exit = "zero"
    THEN [out |-> tool.stdout, err |-> Nil, stderr |-> tool.stderr]
    ELSE [out    |-> tool.stdout,
          err    |-> Err("exit status 1", IF stderrSet THEN "" ELSE tool.stderr),
          stderr |-> tool.stderr]

\* strings.TrimSpace of the stderr texts the tool writes
TrimSpace(t) ==
    CASE t = "rbd: error opening pool\n" -> "rbd: error opening pool"
      [] t = "rbd: warning\n"            -> "rbd: warning"
      [] OTHER                           -> t

\* a log.Printf line: its format and its arguments
Line(fmt, args) == [fmt |-> fmt, args |-> args]

\* strings.Join(args, " "), kept as the sequence of its pieces
RECURSIVE Join(_)
Join(args) ==
    IF Len(args) = 0 THEN <<>>
    ELSE IF Len(args) = 1 THEN args[1]
    ELSE args[1] \o <<" ">> \o Join(Tail(args))

\* the lines Collect logs for a failed call or decode
PoolErrLine(v, cluster, msg) ==
    IF v = "cluster" THEN Line("error listing images (cluster %s): %v", <<cluster, msg>>)
    ELSE Line("mirror pool status error: %v", <<msg>>)

PoolDecodeLine(v) ==
    IF v = "cluster" THEN Line("error parsing image list JSON: %v", <<"json">>)
    ELSE Line("decode pool status: %v", <<"json">>)

DetailErrLine(v, img, msg) ==
    IF v = "cluster" THEN Line("error getting status for %s: %v", <<img, msg>>)
    ELSE Line("status for %s: %v", <<img, msg>>)

DetailDecodeLine(v, img) ==
    IF v = "cluster" THEN Line("error parsing JSON for %s: %v", <<img, "json">>)
    ELSE Line("decode status for %s: %v", <<img, "json">>)

\* RunRBD's log line before the command is started
RunLog(v, debug, args) ==
    IF v # "cluster" /\ debug
    THEN << Line("[DEBUG] run: rbd %s", Join(args)) >> ELSE <<>>

\* RunRBD's log line after the command failed
ErrLog(v, debug, r) ==
    IF v # "cluster" /\ debug /\ r.err # Nil
    THEN << Line("[DEBUG] rbd error: %v; stderr: %s", <<r.err.msg, TrimSpace(r.stderr)>>) >>
    ELSE <<>>

\* a build that starts the tool with exec.Command: ctx never ends a call
RunRBDNoContext(v, started, hit, tool) == CmdOutput(v # "cluster", TRUE, "none", tool)

\* what RunRBD / runRBD hands back to Collect: stdout and the error
RunRBD(v, started, hit, tool) == CmdOutput(v # "cluster", started, hit, tool)

----------------------------------------------------------------------------
(* What the rbd tool can answer *)

R1 == [bytes_per_second |-> 2097152, entries_behind_primary |-> 3,
       entries_per_second |-> 10, seconds_until_synced |-> 5]

S(secs) == [syncing_percent |-> 50, seconds_until_synced |-> 7,
            bytes_per_snapshot |-> 1048576, last_snapshot_bytes |-> 3145728,
            last_snapshot_sync_seconds |-> secs]

\* durations of the last snapshot sync: negative, zero, positive
SyncSeconds == {-1, 0, 2}

StatusObjects ==
    { [mode |-> "journal", replaying_status |-> R1],
      [mode |-> "journal", snapshot_status |-> S(2)],
      [mode |-> "snapshot", replaying_status |-> R1],
      [mode |-> "disabled", replaying_status |-> R1, snapshot_status |-> S(2)] }
    \cup { [mode |-> "snapshot", snapshot_status |-> S(n)] : n \in SyncSeconds }

Ran(raw, text) == [exit |-> "zero", stdout |-> raw, stderr |-> text]

ExitNonZero == [exit |-> "nonzero", stdout |-> EmptyOut, stderr |-> "rbd: error opening pool\n"]
NotStarted == [exit |-> "nostart", stdout |-> EmptyOut, stderr |-> ""]

\* answers to `rbd mirror image status`
DetailTools ==
    { ExitNonZero, Ran(InvalidJSON, "") }
    \cup { Ran(JObject(o), "") : o \in StatusObjects }

PeerStats(secs) == [bytes_per_second |-> 0, bytes_per_snapshot |-> 1048576,
                    last_snapshot_bytes |-> 2097152, last_snapshot_sync_seconds |-> secs]

Descriptions ==
    { <<Text>>, <<Text, Brace>>, <<Object(PeerStats(2)), Text>> }
    \cup { <<Text, Object(PeerStats(n))>> : n \in SyncSeconds }

PeerObj(d, st, lu) == [description |-> d, state |-> st, last_update |-> lu]

PeerSiteLists(v) ==
    { <<>> }
    \cup { <<PeerObj(d, "up+replaying", "2024-01-02 03:04:05")>> : d \in Descriptions }
    \cup { <<PeerObj(<<Text>>, "up+replaying", ""),
               PeerObj(<<Text, Object(PeerStats(2))>>, "up+replaying", "")>>,
             <<PeerObj(<<Text, Object(PeerStats(2))>>, "up+stopped", "2024-01-02 03:04:05"),
               PeerObj(<<Text>>, "up+replaying", "")>> }

PoolModes == {"journal", "snapshot", "disabled"}

\* the entries the pool-level payload can list at position k
Entries(v, k) ==
    CASE v = "cluster"  -> { ImageNames[k] }
      [] v = "modelist" -> { [name |-> ImageNames[k], mirror_image_mode |-> m] : m \in PoolModes }
      [] OTHER          -> { [name |-> ImageNames[k], peer_sites |-> p] : p \in PeerSiteLists(v) }

RECURSIVE ListsOf(_, _)
ListsOf(v, n) ==
    IF n = 0 THEN { <<>> }
    ELSE { Append(l, e) : l \in ListsOf(v, n - 1), e \in Entries(v, n) }

Lists(v, max) == UNION { ListsOf(v, n) : n \in 0..max }

\* answers to the pool-level call with at most max images
PoolTools(v, max) ==
    { ExitNonZero, NotStarted, Ran(InvalidJSON, "") }
    \cup (IF v = "cluster"
          THEN { Ran(JArray(l), "") : l \in Lists(v, max) }
               \cup { Ran(JObject([images |-> <<>>]), ""), Ran(JArray(<<>>), "rbd: warning\n") }
          ELSE { Ran(JObject([images |-> l]), "") : l \in Lists(v, max) }
               \cup { Ran(JArray(<<>>), ""), Ran(JObject([name |-> "x"]), "rbd: warning\n") })

----------------------------------------------------------------------------
(* One scrape: the locals of a running Collect *)

\* the scrapes that can run at the same time
Ids == DOMAIN scr

\* Collect has not been called: no locals, nothing sent
IdleScrape ==
    [pc      |-> "idle",     \* idle, poolCall, loop, detailCall, emit, done
     query   |-> "",         \* the request's cluster parameter
     cluster |-> "",         \* c.cluster
     expired |-> FALSE,      \* ctx is done
     hit     |-> "none",     \* how the end of ctx met the call in flight, until it returns
     started |-> FALSE,      \* the command in flight was started before ctx was done
     calls   |-> <<>>,       \* argument lists of the RunRBD calls made
     poolRet |-> Nil,        \* what the pool-level call returned
     aborted |-> FALSE,      \* Collect returned before the loop
     images  |-> <<>>,       \* the decoded pool-level list
     idx     |-> 0,          \* position of the loop
     iter    |-> <<>>,       \* per visited image: whether a call was made, what it returned
     pending |-> <<>>,       \* samples of this iteration not yet sent
     emitted |-> <<>>,       \* samples sent on ch
     log     |-> <<>>]       \* lines this scrape logged

\* a build that keeps the samples of the previous scrape in the collector
ReusedScrape(prev) == [IdleScrape EXCEPT !.emitted = prev.emitted]

\* the locals of a new call of Collect are fresh, whatever the last call left
NewScrape(prev) == IdleScrape

Pool == DefaultPool

\* a build that keeps the cluster of the last request when a request names none
StickyCluster(prev, query) == IF query = "" THEN prev.cluster ELSE query

\* the handler builds a collector per request from the request's own parameter
RequestCluster(prev, query) == query

Visit(img, called, r) == [img |-> img, called |-> called, ret |-> r]

\* the samples of one image of the two-call builds once its status is decoded
DetailSamples(v, lbl, ms) ==
    IF v = "cluster" /\ ms.Mode # "journal" /\ ms.Mode # "snapshot"
    THEN <<>>
    ELSE StatusSamples(lbl, ms)

\* a build that fetches the status of every listed image, whatever its mode
FilteredOutNever(v, img) == FALSE

\* the mode-list build skips an image by its pool-level mode before any call
FilteredOut(v, img) == v = "modelist" /\ img.Mode # "journal" /\ img.Mode # "snapshot"

\* a build that logs a scrape error with log.Fatalf
LogFatalf(p) == "exited"

\* log.Printf does not end the process
LogPrintf(p) == p

\* a build whose loop steps over the image after the one just handled
ContinueTwice(s) == [s EXCEPT !.pc = "loop", !.idx = s.idx + 2, !.pending = <<>>]

\* continue, or the end of the loop body: the next iteration of the loop
Continue(s) == [s EXCEPT !.pc = "loop", !.idx = s.idx + 1, !.pending = <<>>]

\* a build that returns from Collect when one image cannot be fetched or decoded
AbortScrape(s) == [s EXCEPT !.pc = "done", !.aborted = TRUE]

\* a build that fetches the same image again when its fetch or decode failed
RetryImage(s) == [s EXCEPT !.pc = "loop", !.pending = <<>>]

\* the continue after a failed detail fetch or decode: only this image is skipped
SkipImage(s) == Continue(s)

\* a build that stops sending the samples of an image once ctx is done
AfterSendChecked(s) ==
    IF s.expired THEN [s EXCEPT !.pending = <<>>]
    ELSE [s EXCEPT !.emitted = Append(s.emitted, Head(s.pending)),
                   !.pending = Tail(s.pending)]

\* ch <- metric: the sample is sent whether or not ctx is done
AfterSend(s) ==
    [s EXCEPT !.emitted = Append(s.emitted, Head(s.pending)),
              !.pending = Tail(s.pending)]

\* a build that keeps the samples of an image back and goes on to the next image
EmitDeferred(s, samples) ==
    [s EXCEPT !.pc = "loop", !.idx = s.idx + 1, !.pending = s.pending \o samples]

\* the body of one iteration from a sample list: send it, or go on when empty
Emit(s, samples) ==
    IF Len(samples) = 0 THEN Continue(s)
    ELSE [s EXCEPT !.pc = "emit", !.pending = samples]

----------------------------------------------------------------------------
(* Actions *)

\* main(): -version prints and exits; otherwise Debug is set and the server starts
Main ==
    /\ proc = "init"
    /\ IF flags.showVer
       THEN proc' = "exited" /\ UNCHANGED Debug
       ELSE proc' = "serving" /\ Debug' = (IF variant = "cluster" THEN Debug ELSE flags.debug)
    /\ UNCHANGED <<variant, flags, scr>>

\* http.ListenAndServe returns an error: log.Fatalf ends the process at once,
\* whatever the scrapes are doing; an exited process takes no further step
ListenFails ==
    /\ proc = "serving"
    /\ proc' = "exited"
    /\ UNCHANGED <<variant, flags, Debug, scr>>

\* a scrape request: Collect starts, sets the deadline and makes the pool-level call
Collect(i, cluster) ==
    /\ proc = "serving"
    /\ scr[i].pc = "idle"
    /\ variant # "cluster" => cluster = ""
    /\ LET c    == RequestCluster(scr[i], cluster)
           args == PoolArgs(variant, c, Pool)
       IN  scr' = [scr EXCEPT ![i] =
                     [NewScrape(scr[i]) EXCEPT
                        !.pc = "poolCall", !.query = cluster, !.cluster = c,
                        !.started = TRUE,
                        !.calls = <<args>>, !.log = RunLog(variant, Debug, args)]]
    /\ UNCHANGED <<variant, flags, Debug, proc>>

\* the pool-level call returns: abort on a fetch or decode error, else enter the loop
PoolReturn(i, tool) ==
    LET s == scr[i]
        r == RunRBD(variant, s.started, s.hit, tool)
        l == s.log \o ErrLog(variant, Debug, r)
        d == UnmarshalPool(variant, r.out)
    IN  /\ proc = "serving"
        /\ s.pc = "poolCall"
        /\ IF r.err # Nil
           THEN /\ scr' = [scr EXCEPT ![i] =
                     [s EXCEPT !.pc = "done", !.aborted = TRUE, !.poolRet = r, !.hit = "none",
                               !.log = Append(l, PoolErrLine(variant, s.cluster, r.err.msg))]]
                /\ proc' = LogPrintf(proc)
           ELSE IF d.err
           THEN /\ scr' = [scr EXCEPT ![i] =
                     [s EXCEPT !.pc = "done", !.aborted = TRUE, !.poolRet = r, !.hit = "none",
                               !.log = Append(l, PoolDecodeLine(variant))]]
                /\ proc' = LogPrintf(proc)
           ELSE /\ scr' = [scr EXCEPT ![i] =
                     [s EXCEPT !.pc = "loop", !.poolRet = r, !.images = d.v, !.hit = "none",
                               !.idx = 1, !.log = l]]
                /\ UNCHANGED proc
        /\ UNCHANGED <<variant, flags, Debug>>

\* the head of the loop: return after the last image; skip an image by its pool-level
\* mode (mode-list build); make the detail call; or, in the peer-description build,
\* run the whole body
LoopStep(i) ==
    LET s   == scr[i]
        img == s.images[s.idx]
        lbl == LabelValues(variant, s.cluster, Pool, img.Name)
    IN  /\ proc = "serving"
        /\ s.pc = "loop"
        /\ IF s.idx > Len(s.images)
           THEN scr' = [scr EXCEPT ![i] = [s EXCEPT !.pc = "done"]]
           ELSE IF FilteredOut(variant, img)
           THEN scr' = [scr EXCEPT ![i] =
                          Continue([s EXCEPT !.iter = Append(s.iter, Visit(img, FALSE, Nil))])]
           ELSE IF TwoCall(variant)
           THEN LET args == DetailArgs(variant, s.cluster, Pool, img.Name)
                IN  scr' = [scr EXCEPT ![i] =
                              [s EXCEPT !.pc = "detailCall", !.started = ~s.expired,
                                        !.calls = Append(s.calls, args),
                                        !.log = s.log \o RunLog(variant, Debug, args)]]
           ELSE LET bad == /\ Len(img.PeerSites) > 0
                           /\ Index(img.PeerSites[1].Description) # -1
                           /\ UnmarshalStats(SliceFrom(img.PeerSites[1].Description,
                                                       Index(img.PeerSites[1].Description))).err
                IN  scr' = [scr EXCEPT ![i] =
                              Emit([s EXCEPT !.iter = Append(s.iter, Visit(img, FALSE, Nil)),
                                             !.log = IF bad /\ Debug
                                                     THEN Append(s.log, Line("decode stats for %s: %v",
                                                                             <<img.Name, "json">>))
                                                     ELSE s.log],
                                   PeerImageSamples(variant, lbl, img))]
        /\ UNCHANGED <<variant, flags, Debug, proc>>

\* the detail call returns: skip the image on a fetch or decode error, else send
\* the samples its status maps to
DetailReturn(i, tool) ==
    LET s   == scr[i]
        img == s.images[s.idx]
        lbl == LabelValues(variant, s.cluster, Pool, img.Name)
        r   == RunRBD(variant, s.started, s.hit, tool)
        l   == s.log \o ErrLog(variant, Debug, r)
        d   == UnmarshalMirrorStatus(r.out)
        t   == [s EXCEPT !.iter = Append(s.iter, Visit(img, TRUE, r)), !.hit = "none"]
    IN  /\ proc = "serving"
        /\ s.pc = "detailCall"
        /\ IF r.err # Nil
           THEN /\ scr' = [scr EXCEPT ![i] =
                     SkipImage([t EXCEPT !.log = Append(l, DetailErrLine(variant, img.Name, r.err.msg))])]
                /\ proc' = LogPrintf(proc)
           ELSE IF d.err
           THEN /\ scr' = [scr EXCEPT ![i] =
                     SkipImage([t EXCEPT !.log = Append(l, DetailDecodeLine(variant, img.Name))])]
                /\ proc' = LogPrintf(proc)
           ELSE /\ scr' = [scr EXCEPT ![i] =
                     Emit([t EXCEPT !.log = l], DetailSamples(variant, lbl, d.v))]
                /\ UNCHANGED proc
        /\ UNCHANGED <<variant, flags, Debug>>

\* ch <- metric: the registry takes the next sample of this iteration
Send(i) ==
    LET s == scr[i]
        t == AfterSend(s)
    IN  /\ proc = "serving"
        /\ s.pc = "emit"
        /\ scr' = [scr EXCEPT ![i] = IF Len(t.pending) = 0 THEN Continue(t) ELSE t]
        /\ UNCHANGED <<variant, flags, Debug, proc>>

\* the deadline of context.WithTimeout passes while Collect runs; it meets the
\* process of a call in flight in one of the ways of Hits
Deadline(i, hit) ==
    /\ proc = "serving"
    /\ scr[i].pc \in {"poolCall", "loop", "detailCall", "emit"}
    /\ ~scr[i].expired
    /\ hit = "none" <=> ~(scr[i].pc \in {"poolCall", "detailCall"} /\ scr[i].started)
    /\ scr' = [scr EXCEPT ![i].expired = TRUE, ![i].hit = hit]
    /\ UNCHANGED <<variant, flags, Debug, proc>>

\* Collect has returned and the response is written: the slot can serve a new
\* request; what the finished call left behind is dead until Collect starts anew
Return(i) ==
    /\ proc = "serving"
    /\ scr[i].pc = "done"
    /\ scr' = [scr EXCEPT ![i].pc = "idle"]
    /\ UNCHANGED <<variant, flags, Debug, proc>>

----------------------------------------------------------------------------
(* Specifications *)

InitWith(ids) ==
    /\ variant \in Variants
    /\ flags \in [debug : BOOLEAN, showVer : BOOLEAN]
    /\ variant = "cluster" => ~flags.debug
    /\ Debug = FALSE
    /\ proc = "init"
    /\ scr = [i \in ids |-> IdleScrape]

Init == InitWith({1})

Next ==
    \/ Main
    \/ ListenFails
    \/ \E i \in Ids : \E c \in Clusters : Collect(i, c)
    \/ \E i \in Ids : scr[i].pc = "poolCall" /\
          \E t \in PoolTools(variant, MaxImages) : PoolReturn(i, t)
    \/ \E i \in Ids : LoopStep(i)
    \/ \E i \in Ids : scr[i].pc = "detailCall" /\
          \E t \in DetailTools : DetailReturn(i, t)
    \/ \E i \in Ids : Send(i)
    \/ \E i \in Ids : \E h \in Hits \cup {"none"} : Deadline(i, h)
    \/ \E i \in Ids : Return(i)

Spec == Init /\ [][Next]_vars

\* answers to the detail call in SpecConc
ConcDetailTools ==
    { ExitNonZero,
      Ran(JObject([mode |-> "journal", replaying_status |-> R1]), "") }

\* the entries the pool-level payload lists at position k in SpecLive
LiveEntries(v, k) ==
    CASE v = "cluster"  -> { ImageNames[k] }
      [] v = "modelist" -> { [name |-> ImageNames[k], mirror_image_mode |-> m] :
                               m \in {"journal", "disabled"} }
      [] OTHER          -> { [name |-> ImageNames[k], peer_sites |-> p] :
                               p \in { <<>>,
                                        <<PeerObj(<<Text, Object(PeerStats(2))>>,
                                                  "up+replaying", "2024-01-02 03:04:05")>> } }

RECURSIVE LiveListsOf(_, _)
LiveListsOf(v, n) ==
    IF n = 0 THEN { <<>> }
    ELSE { Append(l, e) : l \in LiveListsOf(v, n - 1), e \in LiveEntries(v, n) }

\* answers to the pool-level call in SpecLive
LivePoolTools(v) ==
    { ExitNonZero, Ran(InvalidJSON, "") }
    \cup { Ran(IF v = "cluster" THEN JArray(l) ELSE JObject([images |-> l]), "") :
             l \in UNION { LiveListsOf(v, n) : n \in 0..LiveImages } }

\* answers to the detail call in SpecLive
LiveDetailTools == ConcDetailTools \cup { Ran(InvalidJSON, "") }

NextLive ==
    \/ Main
    \/ ListenFails
    \/ \E c \in Clusters : Collect(1, c)
    \/ scr[1].pc = "poolCall" /\ \E t \in LivePoolTools(variant) : PoolReturn(1, t)
    \/ LoopStep(1)
    \/ scr[1].pc = "detailCall" /\ \E t \in LiveDetailTools : DetailReturn(1, t)
    \/ Send(1)
    \/ \E h \in Hits \cup {"none"} : Deadline(1, h)
    \/ Return(1)

\* every call of a running scrape returns (the tool ends or ctx kills it), the
\* registry takes every sample sent on ch, and the loop runs on
Fairness ==
    /\ WF_vars(scr[1].pc = "poolCall" /\
                 \E t \in LivePoolTools(variant) : PoolReturn(1, t))
    /\ WF_vars(scr[1].pc = "loop" /\ LoopStep(1))
    /\ WF_vars(scr[1].pc = "detailCall" /\
                 \E t \in LiveDetailTools : DetailReturn(1, t))
    /\ WF_vars(scr[1].pc = "emit" /\ Send(1))

SpecLive == Init /\ [][NextLive]_vars /\ Fairness

\* two requests served side by side by the one registered collector
InitConc ==
    /\ InitWith({1, 2})
    /\ variant = "modelist"
    /\ ~flags.showVer

NextConc ==
    \/ Main
    \/ ListenFails
    \/ \E i \in Ids : Collect(i, "")
    \/ \E i \in Ids : scr[i].pc = "poolCall" /\
          \E t \in PoolTools(variant, ConcImages) : PoolReturn(i, t)
    \/ \E i \in Ids : LoopStep(i)
    \/ \E i \in Ids : scr[i].pc = "detailCall" /\
          \E t \in ConcDetailTools : DetailReturn(i, t)
    \/ \E i \in Ids : Send(i)
    \/ \E i \in Ids : \E h \in Hits \cup {"none"} : Deadline(i, h)
    \/ \E i \in Ids : Return(i)

SpecConc == InitConc /\ [][NextConc]_vars

\* two requests served side by side by the cluster build, each with its own
\* cluster parameter and its own collector
InitCluster ==
    /\ InitWith({1, 2})
    /\ variant = "cluster"
    /\ ~flags.showVer

NextCluster ==
    \/ Main
    \/ ListenFails
    \/ \E i \in Ids : \E c \in Clusters : Collect(i, c)
    \/ \E i \in Ids : scr[i].pc = "poolCall" /\
          \E t \in PoolTools(variant, ConcImages) : PoolReturn(i, t)
    \/ \E i \in Ids : LoopStep(i)
    \/ \E i \in Ids : scr[i].pc = "detailCall" /\
          \E t \in ConcDetailTools : DetailReturn(i, t)
    \/ \E i \in Ids : Send(i)
    \/ \E i \in Ids : \E h \in Hits \cup {"none"} : Deadline(i, h)
    \/ \E i \in Ids : Return(i)

SpecCluster == InitCluster /\ [][NextCluster]_vars


----------------------------------------------------------------------------
(* Vocabulary of the properties *)

\* the image label of a sample
ImageOf(m) == m.labels[IF variant = "cluster" THEN 3 ELSE 2]

\* the samples a scrape has sent for one image, in the order sent
SamplesFor(s, name) == SelectSeq(s.emitted, LAMBDA m : ImageOf(m) = name)

Descs(q) == [k \in 1..Len(q) |-> q[k].desc]

\* the one sample of q with the given descriptor
TheSample(q, desc) == CHOOSE m \in {q[k] : k \in 1..Len(q)} : m.desc = desc

IsPrefix(a, b) == Len(a) <= Len(b) /\ SubSeq(b, 1, Len(a)) = a

\* the pool-level call came back and could not be used
PoolFailed(s) ==
    /\ s.poolRet # Nil
    /\ (s.poolRet.err # Nil \/ UnmarshalPool(variant, s.poolRet.out).err)

\* the loop was entered and Collect has returned
LoopDone(s) == s.pc = "done" /\ s.poolRet # Nil /\ ~PoolFailed(s)

\* the detail call of a visited image: made and usable, or made and not usable
DetailOK(e) == e.called /\ e.ret.err = Nil /\ ~UnmarshalMirrorStatus(e.ret.out).err
DetailFailed(e) == e.called /\ ~DetailOK(e)
StatusOf(e) == UnmarshalMirrorStatus(e.ret.out).v

KnownMode(m) == m \in {"journal", "snapshot"}

\* the labels due on the samples of one image
ExpectedLabels(s, name) ==
    IF variant = "cluster" THEN <<s.cluster, DefaultPool, name>> ELSE <<DefaultPool, name>>

\* the size of the metric set a decoded status is due
DueCount(ms) ==
    IF ms.Mode = "journal" /\ ms.ReplayingStatus # Nil THEN 4
    ELSE IF ms.Mode = "snapshot" /\ ms.SnapshotStatus # Nil THEN 6
    ELSE 0

\* a peer description that holds stats: a "{" and a fragment that decodes
HasStats(img) ==
    /\ Len(img.PeerSites) > 0
    /\ Index(img.PeerSites[1].Description) # -1
    /\ ~UnmarshalStats(SliceFrom(img.PeerSites[1].Description,
                                 Index(img.PeerSites[1].Description))).err

StatsOf(img) ==
    UnmarshalStats(SliceFrom(img.PeerSites[1].Description,
                             Index(img.PeerSites[1].Description))).v

----------------------------------------------------------------------------
(* C1: in every build, when the pool-level fetch fails or its payload does  *)
(* not decode, Collect has returned, nothing was sent, no detail call was   *)
(* made (the pool-level call is the only call), and the step that returns   *)
(* from the pool-level call leaves the process serving.                     *)
C1_PoolFailureEmitsNothing ==
    /\ [](\A i \in Ids :
            PoolFailed(scr[i]) =>
                /\ scr[i].pc \in {"done", "idle"}
                /\ scr[i].aborted
                /\ scr[i].emitted = <<>>
                /\ scr[i].pending = <<>>
                /\ Len(scr[i].calls) = 1
                /\ scr[i].iter = <<>>)
    /\ [][\A i \in Ids :
            (scr[i].pc = "poolCall" /\ scr'[i].pc = "done") => proc' = "serving"]_vars

\* a scrape whose pool payload came back without error and did not decode
C1_Witness ==
    \E i \in Ids :
        /\ scr[i].pc = "done"
        /\ PoolFailed(scr[i])
        /\ scr[i].poolRet.err = Nil

(* C2: in the two-call builds, after a successful pool-level fetch, an image *)
(* whose detail fetch or decode failed has no sample, every image whose      *)
(* detail fetch and decode succeeded has its whole set, before or after the  *)
(* failed one, and every listed image was visited.                           *)
C2_FailedImageSkippedOthersKept ==
    \A i \in Ids :
        (TwoCall(variant) /\ LoopDone(scr[i])) =>
            /\ Len(scr[i].iter) = Len(scr[i].images)
            /\ \A k \in 1..Len(scr[i].iter) :
                 LET e == scr[i].iter[k]
                     q == SamplesFor(scr[i], e.img.Name)
                 IN  /\ e.img = scr[i].images[k]
                     /\ DetailFailed(e) => q = <<>>
                     /\ DetailOK(e) => Len(q) = DueCount(StatusOf(e))

\* a finished scrape of two images: the first failed, the second has its set
C2_Witness ==
    \E i \in Ids :
        /\ TwoCall(variant) /\ LoopDone(scr[i])
        /\ Len(scr[i].iter) = 2
        /\ DetailFailed(scr[i].iter[1])
        /\ DetailOK(scr[i].iter[2])
        /\ Len(SamplesFor(scr[i], scr[i].iter[2].img.Name)) >= 4

(* C3: in the two-call builds, an image whose status has mode journal and a  *)
(* replaying_status gets exactly the four journal samples, labelled with     *)
(* (cluster,) pool and image: speed = bytes_per_second / 1048576, the other  *)
(* three values as decoded.                                                  *)
C3_JournalSet ==
    \A i \in Ids :
        (TwoCall(variant) /\ scr[i].pc = "done") =>
            \A k \in 1..Len(scr[i].iter) :
                LET e   == scr[i].iter[k]
                    ms  == StatusOf(e)
                    rs  == ms.ReplayingStatus
                    lbl == ExpectedLabels(scr[i], e.img.Name)
                IN  (DetailOK(e) /\ ms.Mode = "journal" /\ rs # Nil) =>
                        SamplesFor(scr[i], e.img.Name) =
                          << [desc |-> "journal_speed_mib_per_sec", labels |-> lbl,
                              value |-> FDiv(rs.BytesPerSecond, Float(1048576))],
                             [desc |-> "journal_entries_behind_primary", labels |-> lbl,
                              value |-> rs.EntriesBehindPrimary],
                             [desc |-> "journal_entries_per_sec", labels |-> lbl,
                              value |-> rs.EntriesPerSecond],
                             [desc |-> "journal_seconds_until_synced", labels |-> lbl,
                              value |-> rs.SecondsUntilSynced] >>

\* the round trip of bytes_per_second 2097152, 3, 10, 5: speed 2 and 3, 10, 5
C3_Witness ==
    \E i \in Ids :
        /\ variant = "modelist" /\ scr[i].pc = "done"
        /\ Len(scr[i].iter) >= 1 /\ DetailOK(scr[i].iter[1])
        /\ [k \in 1..Len(scr[i].emitted) |-> scr[i].emitted[k].value]
             = << Float(2), Float(3), Float(10), Float(5) >>
        /\ \A k \in 1..4 : scr[i].emitted[k].labels = <<DefaultPool, "vm1">>

(* C4: an image with mode snapshot and a snapshot_status (two-call builds),  *)
(* or with stats in its peer description (peer build), gets 6 or 4 samples;  *)
(* its speed sample is 0 when last_snapshot_sync_seconds <= 0 and            *)
(* last_snapshot_bytes / last_snapshot_sync_seconds / 1048576 otherwise.     *)
C4_SnapshotSet ==
    \A i \in Ids :
        scr[i].pc = "done" =>
            \A k \in 1..Len(scr[i].iter) :
                LET e   == scr[i].iter[k]
                    q   == SamplesFor(scr[i], e.img.Name)
                    due == IF TwoCall(variant)
                           THEN /\ DetailOK(e)
                                /\ StatusOf(e).Mode = "snapshot"
                                /\ StatusOf(e).SnapshotStatus # Nil
                           ELSE HasStats(e.img)
                    st  == IF TwoCall(variant) THEN StatusOf(e).SnapshotStatus
                           ELSE StatsOf(e.img)
                    spd == TheSample(q, "snapshot_speed_mib_per_sec").value
                IN  due =>
                      /\ Len(q) = (IF TwoCall(variant) THEN 6 ELSE 4)
                      /\ Cardinality({m \in {q[j] : j \in 1..Len(q)} :
                                        m.desc = "snapshot_speed_mib_per_sec"}) = 1
                      /\ IF st.LastSnapshotSyncSeconds.num <= 0
                         THEN spd = Float(0)
                         ELSE spd = FDiv(FDiv(st.LastSnapshotBytes,
                                              st.LastSnapshotSyncSeconds), Float(1048576))

\* the peer build: a duration of -1 gave speed 0 for the first image, and 2097152
\* bytes in 2 s gave speed 1 for the second
C4_Witness ==
    \E i \in Ids :
        /\ scr[i].pc = "done" /\ Len(scr[i].iter) = 2
        /\ ~TwoCall(variant)
        /\ HasStats(scr[i].iter[1].img)
        /\ StatsOf(scr[i].iter[1].img).LastSnapshotSyncSeconds = Float(-1)
        /\ scr[i].emitted[1].value = Float(0)
        /\ HasStats(scr[i].iter[2].img)
        /\ StatsOf(scr[i].iter[2].img).LastSnapshotSyncSeconds = Float(2)
        /\ TheSample(SamplesFor(scr[i], "vm2"), "snapshot_speed_mib_per_sec").value = Float(1)

(* C5: an image whose mode is neither journal nor snapshot, by its pool-level *)
(* entry (mode-list build) or by its detail status, gets no sample; the loop  *)
(* goes on to the last image and no step of the loop ends the process.        *)
C5_UnknownModeEmitsNothing ==
    /\ [](\A i \in Ids :
            (TwoCall(variant) /\ LoopDone(scr[i])) =>
                /\ Len(scr[i].iter) = Len(scr[i].images)
                /\ \A k \in 1..Len(scr[i].iter) :
                     LET e == scr[i].iter[k] IN
                     (\/ variant = "modelist" /\ ~KnownMode(e.img.Mode)
                      \/ DetailOK(e) /\ ~KnownMode(StatusOf(e).Mode))
                       => /\ SamplesFor(scr[i], e.img.Name) = <<>>
                          /\ variant = "modelist" /\ ~KnownMode(e.img.Mode) => ~e.called)
    /\ [][\A i \in Ids :
            (scr[i].pc \in {"loop", "detailCall", "emit"} /\ scr'[i] # scr[i])
               => proc' = "serving"]_vars

\* an image of unknown detail mode, with both sub-objects, before an image that
\* got its samples
C5_Witness ==
    \E i \in Ids :
        /\ TwoCall(variant) /\ LoopDone(scr[i])
        /\ Len(scr[i].iter) = 2
        /\ DetailOK(scr[i].iter[1])
        /\ StatusOf(scr[i].iter[1]).Mode = "disabled"
        /\ StatusOf(scr[i].iter[1]).ReplayingStatus # Nil
        /\ DetailOK(scr[i].iter[2])
        /\ Len(scr[i].emitted) >= 4


JournalNames ==
    << "journal_speed_mib_per_sec", "journal_entries_behind_primary",
       "journal_entries_per_sec", "journal_seconds_until_synced" >>

SnapshotNames ==
    << "snapshot_sync_percent", "snapshot_speed_mib_per_sec",
       "snapshot_seconds_until_synced", "snapshot_bytes_per_snapshot_mib",
       "snapshot_last_snapshot_bytes_mib", "snapshot_last_snapshot_sync_seconds" >>

PeerNames ==
    << "snapshot_speed_mib_per_sec", "snapshot_bytes_per_snapshot_mib",
       "snapshot_last_snapshot_bytes_mib", "snapshot_last_snapshot_sync_seconds" >>

\* the whole sets a build can send for one image
FullSets ==
    IF TwoCall(variant) THEN { JournalNames, SnapshotNames }
    ELSE { PeerNames }

(* C6: when Collect has returned, every listed image has either no sample or *)
(* one whole set, the journal set or a snapshot set and never both, also     *)
(* when the deadline passed while the loop was running.                      *)
C6_FullSetOrNone ==
    \A i \in Ids :
        scr[i].pc = "done" =>
            \A k \in 1..Len(scr[i].images) :
                LET q == SamplesFor(scr[i], scr[i].images[k].Name)
                IN  q = <<>> \/ Descs(q) \in FullSets

\* the deadline passed while the samples of the first image were being sent, and
\* the second image was still visited
C6_Witness ==
    \E i \in Ids :
        /\ scr[i].pc = "done" /\ scr[i].expired
        /\ Len(scr[i].iter) = 2
        /\ Len(scr[i].emitted) = 6
        /\ scr[i].iter[2].called
        /\ scr[i].iter[2].ret.err # Nil
        /\ scr[i].iter[2].ret.err.msg = "context deadline exceeded"

(* C7: in the peer-description build an image whose description holds no    *)
(* "{" gets no sample, the loop visits every listed image, and every image  *)
(* whose description holds stats gets its set of four samples.              *)
C7_NoBraceSkipped ==
    \A i \in Ids :
        (~TwoCall(variant) /\ LoopDone(scr[i])) =>
            /\ Len(scr[i].iter) = Len(scr[i].images)
            /\ \A k \in 1..Len(scr[i].images) :
                 LET img == scr[i].images[k]
                     q   == SamplesFor(scr[i], img.Name)
                 IN  /\ (Len(img.PeerSites) > 0 /\ Index(img.PeerSites[1].Description) = -1)
                           => q = <<>>
                     /\ HasStats(img) => Descs(q) \in FullSets

\* a description without "{" first, then one with stats that got its samples
C7_Witness ==
    \E i \in Ids :
        /\ ~TwoCall(variant) /\ LoopDone(scr[i])
        /\ Len(scr[i].images) = 2
        /\ Len(scr[i].images[1].PeerSites) > 0
        /\ Index(scr[i].images[1].PeerSites[1].Description) = -1
        /\ HasStats(scr[i].images[2])
        /\ Len(scr[i].emitted) >= 4
        /\ \A k \in 1..Len(scr[i].emitted) : ImageOf(scr[i].emitted[k]) = "vm2"


\* a step of scrape i within one call of Collect
Moves(i) == scr'[i] # scr[i] /\ scr'[i].pc \notin {"idle", "poolCall"}

(* C8 as claimed: once the deadline has passed, the scrape aborts: a loop   *)
(* that still has images to visit returns instead of going on to them.      *)
C8_AbortsOnDeadline ==
    [][\A i \in Ids :
         (/\ scr[i].expired /\ scr[i].pc = "loop"
          /\ scr[i].idx <= Len(scr[i].images)
          /\ scr'[i] # scr[i])
           => scr'[i].pc = "done"]_vars

(* C8 amended: the samples sent only grow and the loop is never aborted.    *)
(* A detail call in flight when the deadline passes ends in one of three    *)
(* ways: its process is killed and the call returns "signal: killed"; its   *)
(* process had ended and the call returns what it would have returned       *)
(* without a deadline; or its process had ended but the kill still went     *)
(* through, and the call returns "context deadline exceeded" after exit 0   *)
(* (whatever it wrote to stdout) or "exit status 1".  Every call that       *)
(* returns an error has its image skipped; only a call that returns no      *)
(* error has its output decoded.  The loop goes on to every remaining       *)
(* image; in the two-call builds each later detail call is not started and  *)
(* returns "context deadline exceeded" with no output, Collect logs one     *)
(* line for it (after RunRBD's own debug line, when Debug is set), and no   *)
(* sample is sent for that image.  The peer build makes no detail call and  *)
(* sends the samples of the remaining images as usual.                      *)
C8_DeadlineSkipsRest ==
    [][\A i \in Ids :
         LET s    == scr[i]
             t    == scr'[i]
             r    == t.iter[Len(t.iter)].ret
             name == s.images[s.idx].Name
             skip == /\ t.pc = "loop" /\ t.idx = s.idx + 1
                     /\ t.emitted = s.emitted
             dl   == "context deadline exceeded"
         IN  Moves(i) =>
               /\ IsPrefix(s.emitted, t.emitted)
               /\ (s.expired /\ s.pc = "detailCall") =>
                     /\ Len(t.iter) = Len(s.iter) + 1
                     /\ r.err # Nil => skip
                     /\ t.pc = "emit" => r.err = Nil
                     /\ t.pc \in {"loop", "emit"}
                     /\ ~s.started =>
                           /\ r.err # Nil /\ r.err.msg = dl
                           /\ r.out = [json |-> "empty"]
                           /\ t.log = s.log
                                \o (IF variant # "cluster" /\ Debug
                                    THEN << Line("[DEBUG] rbd error: %v; stderr: %s", <<dl, "">>) >>
                                    ELSE <<>>)
                                \o << Line(IF variant = "cluster"
                                           THEN "error getting status for %s: %v"
                                           ELSE "status for %s: %v", <<name, dl>>) >>
                     /\ (s.started /\ s.hit = "killed") =>
                           r.err # Nil /\ r.err.msg = "signal: killed"
                     /\ (s.started /\ s.hit = "late") =>
                           r.err # Nil /\ r.err.msg \in {dl, "exit status 1"}
                     /\ (s.started /\ s.hit = "ended") =>
                           r.err = Nil \/ r.err.msg = "exit status 1"
                     /\ s.started => s.hit \in {"killed", "late", "ended"}
               /\ (s.expired /\ s.pc = "loop" /\ s.idx <= Len(s.images)) =>
                     /\ t.pc # "done"
                     /\ TwoCall(variant) =>
                           /\ t.emitted = s.emitted
                           /\ t.pc \in {"loop", "detailCall"}
                           /\ t.pc = "detailCall" => ~t.started
               /\ (s.expired /\ s.pc = "emit") =>
                     t.emitted = Append(s.emitted, Head(s.pending))]_vars

\* a two-call scrape whose second detail call was killed by the deadline after the
\* first image's samples were sent: the loop is back at its head, the samples kept
C8_Witness ==
    \E i \in Ids :
        /\ TwoCall(variant) /\ scr[i].expired
        /\ scr[i].pc = "loop"
        /\ Len(scr[i].iter) = 2
        /\ Len(scr[i].emitted) >= 4
        /\ scr[i].iter[2].called
        /\ scr[i].iter[2].ret.err # Nil
        /\ scr[i].iter[2].ret.err.msg = "signal: killed"

\* what the calls of a scrape have returned so far
Returns(s) ==
    (IF s.poolRet = Nil THEN {} ELSE { s.poolRet })
    \cup { s.iter[k].ret : k \in { j \in 1..Len(s.iter) : s.iter[j].called } }

DebugFmt == "[DEBUG] rbd error: %v; stderr: %s"

Holds(l, text) == \E k \in 1..Len(l.args) : l.args[k] = text

(* C9 as claimed: when the tool exits non-zero, the error returned to       *)
(* Collect holds the stderr text, in debug and non-debug mode alike.        *)
C9_ErrorCarriesStderr ==
    \A i \in Ids : \A r \in Returns(scr[i]) :
        (r.err # Nil /\ r.stderr # "") => r.err.Stderr = r.stderr

(* C9 amended: stderr text never reaches the stdout bytes returned.  The   *)
(* error of a failed call is the exit status, the kill, the end of the      *)
(* deadline or, for a tool that cannot be started, the look-up error; the   *)
(* last two come with no stderr text at all.  RunRBD (every build but the   *)
(* cluster one) returns that error with no stderr text in it; the text goes *)
(* to a buffer that is logged, trimmed, only when Debug is set.  Only the   *)
(* cluster build's runRBD returns an exit error (exit status or kill) whose *)
(* Stderr field holds the text, and no build logs it without Debug.         *)
C9_StderrOnlyInDebugLog ==
    \A i \in Ids : \A r \in Returns(scr[i]) :
        /\ "stderr" \notin DOMAIN r.out
        /\ r.err # Nil =>
              /\ r.err.msg \in {"exit status 1", "signal: killed", "context deadline exceeded",
                                "exec: \"rbd\": executable file not found in $PATH"}
              /\ r.err.Stderr =
                    (IF variant = "cluster" /\ r.err.msg \in {"exit status 1", "signal: killed"}
                     THEN r.stderr ELSE "")
              /\ r.err.msg = "exec: \"rbd\": executable file not found in $PATH" =>
                    r.stderr = "" /\ r.out = [json |-> "empty"]
              /\ (variant # "cluster" /\ Debug) =>
                    \E k \in 1..Len(scr[i].log) :
                        scr[i].log[k] = Line(DebugFmt, <<r.err.msg, TrimSpace(r.stderr)>>)
              /\ r.stderr # "" =>
                    \A k \in 1..Len(scr[i].log) :
                       LET l == scr[i].log[k] IN
                       (Holds(l, r.stderr) \/ Holds(l, TrimSpace(r.stderr)))
                          => (Debug /\ variant # "cluster" /\ l.fmt = DebugFmt)

\* a RunRBD build without Debug: the detail call exited non-zero with text on
\* stderr, and neither the error nor the log holds the text
C9_Witness ==
    \E i \in Ids :
        /\ variant = "modelist" /\ ~Debug
        /\ scr[i].pc = "done" /\ Len(scr[i].iter) >= 1
        /\ scr[i].iter[1].called
        /\ scr[i].iter[1].ret.err # Nil
        /\ scr[i].iter[1].ret.stderr = "rbd: error opening pool\n"
        /\ scr[i].iter[1].ret.err.Stderr = ""
        /\ Len(scr[i].log) = 1

\* the samples of the images from position k on, from what their calls returned
RECURSIVE AloneFrom(_, _)
AloneFrom(s, k) ==
    IF k > Len(s.images) THEN <<>>
    ELSE LET img == s.images[k]
             lbl == ExpectedLabels(s, img.Name)
             e   == s.iter[k]
             own == IF ~TwoCall(variant) THEN PeerImageSamples(variant, lbl, img)
                    ELSE IF DetailOK(e) THEN DetailSamples(variant, lbl, StatusOf(e))
                    ELSE <<>>
         IN  own \o AloneFrom(s, k + 1)

\* what a scrape sends when it runs alone and its calls return what they returned
Alone(s) == IF PoolFailed(s) THEN <<>> ELSE AloneFrom(s, 1)

(* C10: what a scrape has sent when Collect returns is determined by the    *)
(* configuration and by what its own calls returned, whatever the other     *)
(* scrape did meanwhile and whatever ran in the slot before; a step of one  *)
(* scrape changes nothing of the other, and Debug is not written once the   *)
(* server runs.                                                             *)
C10_ScrapesIndependent ==
    /\ [](\A i \in Ids :
            scr[i].pc = "done" =>
              /\ PoolFailed(scr[i]) \/ Len(scr[i].iter) = Len(scr[i].images)
              /\ scr[i].emitted = Alone(scr[i]))
    /\ [][/\ \A i, j \in Ids : (i # j /\ scr'[i] # scr[i]) => scr'[j] = scr[j]
          /\ proc = "serving" => (Debug' = Debug /\ variant' = variant)]_vars

\* one scrape has returned with its four samples while the other, which was
\* answered differently, is still waiting for its detail call
C10_Witness ==
    /\ DOMAIN scr = {1, 2}
    /\ scr[1].pc = "done" /\ Len(scr[1].emitted) = 4
    /\ scr[2].pc = "detailCall"
    /\ scr[2].images # scr[1].images
    /\ scr[2].expired


\* the arguments of a call that are the flag --cluster
ClusterFlags(call) == { k \in 1..Len(call) : call[k] = Arg("--cluster") }

(* C11: in the cluster build every call of a scrape starts with --cluster   *)
(* and the request's own cluster value exactly when that value is not empty *)
(* (and names no cluster otherwise), every sample of the scrape carries the *)
(* request's value as its cluster label, and a step of one request changes  *)
(* nothing of the other, whatever cluster the other or an earlier one named.*)
C11_ClusterPerRequest ==
    /\ [](\A i \in Ids :
            LET s == scr[i] IN
            /\ s.cluster = s.query
            /\ \A k \in 1..Len(s.calls) :
                  IF s.query # ""
                  THEN /\ ClusterFlags(s.calls[k]) = {1}
                       /\ s.calls[k][2] = Arg(s.query)
                  ELSE ClusterFlags(s.calls[k]) = {}
            /\ \A k \in 1..Len(s.emitted) :
                  /\ Len(s.emitted[k].labels) = 3
                  /\ s.emitted[k].labels[1] = s.query)
    /\ [][\A i, j \in Ids :
            (i # j /\ scr'[i] # scr[i]) => scr'[j] = scr[j]]_vars

\* a request without a cluster has sent its samples, after an earlier request
\* in the same slot, while a request for cluster "backup" is waiting for its
\* detail call: two calls each, one pair with the flag and one without
C11_Witness ==
    /\ variant = "cluster" /\ DOMAIN scr = {1, 2}
    /\ scr[1].pc = "done" /\ scr[1].query = "" /\ Len(scr[1].emitted) = 4
    /\ Len(scr[1].calls) = 2
    /\ scr[2].pc = "detailCall" /\ scr[2].query = "backup"
    /\ Len(scr[2].calls) = 2


\* the steps Collect can take from one position to the next
PcSteps ==
    { <<"idle", "poolCall">>, <<"poolCall", "done">>, <<"poolCall", "loop">>,
      <<"loop", "loop">>, <<"loop", "detailCall">>, <<"loop", "emit">>,
      <<"loop", "done">>, <<"detailCall", "loop">>, <<"detailCall", "emit">>,
      <<"emit", "emit">>, <<"emit", "loop">>, <<"done", "idle">> }

(* C12: a scrape goes from idle to the pool-level call, from there either   *)
(* returns at once (aborted) or enters the loop, and returns from the loop  *)
(* only after the last image; when it has returned from the loop every      *)
(* listed image was visited exactly once, in order, however many were       *)
(* skipped; and when every call returns and every sample sent is taken, a   *)
(* scrape that has started always returns, unless the process exits first.  *)
C12_ScrapeReachesDone ==
    /\ [][\A i \in Ids :
            /\ scr'[i].pc # scr[i].pc => <<scr[i].pc, scr'[i].pc>> \in PcSteps
            /\ (scr[i].pc = "poolCall" /\ scr'[i].pc = "done") => scr'[i].aborted
            /\ (scr[i].pc = "loop" /\ scr'[i].pc = "done") =>
                  ~scr[i].aborted /\ scr[i].idx = Len(scr[i].images) + 1]_vars
    /\ [](\A i \in Ids :
            LET s == scr[i] IN
            s.pc = "done" =>
              IF PoolFailed(s) THEN s.aborted /\ s.iter = <<>>
              ELSE /\ ~s.aborted
                   /\ Len(s.iter) = Len(s.images)
                   /\ \A k \in 1..Len(s.iter) : s.iter[k].img = s.images[k])
    /\ (scr[1].pc = "poolCall") ~> (scr[1].pc = "done" \/ proc = "exited")

\* Collect has returned from a loop over two images that were both skipped,
\* one by a failed fetch and one by a status that does not decode
C12_Witness ==
    \E i \in Ids :
        /\ scr[i].pc = "done" /\ ~scr[i].aborted
        /\ Len(scr[i].images) = 2 /\ Len(scr[i].iter) = 2
        /\ scr[i].emitted = <<>>
        /\ scr[i].iter[1].called /\ scr[i].iter[1].ret.err # Nil
        /\ scr[i].iter[2].called /\ scr[i].iter[2].ret.err = Nil
        /\ DetailFailed(scr[i].iter[2])


\* the calls of a scrape after the first one
DetailCalls(s) == SubSeq(s.calls, 2, Len(s.calls))

(* C13: a scrape that has started made its pool-level call once, as its     *)
(* first call; in the two-call builds every later call is the detail call   *)
(* of one listed image, no image is called for twice even when its call     *)
(* failed, the calls follow the order of the list, and there are at most    *)
(* 1 + N calls for N listed images; the peer-description build makes one    *)
(* call whatever N is.                                                      *)
C13_NoRetry ==
    \A i \in Ids :
        LET s == scr[i]
            d == DetailCalls(s)
            n == Len(s.images)
        IN  Len(s.calls) >= 1 =>
              /\ s.calls[1] = PoolArgs(variant, s.cluster, Pool)
              /\ \A k \in 1..Len(d) : d[k] # PoolArgs(variant, s.cluster, Pool)
              /\ Len(s.calls) <= 1 + n
              /\ ~TwoCall(variant) => Len(s.calls) = 1
              /\ \A m \in 1..n :
                    Cardinality({ k \in 1..Len(d) :
                        d[k] = DetailArgs(variant, s.cluster, Pool, s.images[m].Name) }) <= 1
              /\ \A k \in 1..Len(d) :
                    \E m \in k..n :
                        d[k] = DetailArgs(variant, s.cluster, Pool, s.images[m].Name)
              /\ Len(d) = Cardinality({ k \in 1..Len(s.iter) : s.iter[k].called })
                          + (IF s.pc = "detailCall" THEN 1 ELSE 0)

\* a two-call scrape over two images has returned after both detail calls
\* failed: three calls; and a peer-description scrape that sent the samples of
\* two images with one call
C13_Witness ==
    \E i \in Ids :
        /\ scr[i].pc = "done" /\ Len(scr[i].images) = 2
        /\ \/ /\ TwoCall(variant) /\ Len(scr[i].calls) = 3
              /\ scr[i].iter[1].called /\ scr[i].iter[1].ret.err # Nil
              /\ scr[i].iter[2].called /\ scr[i].iter[2].ret.err # Nil
           \/ /\ ~TwoCall(variant) /\ Len(scr[i].calls) = 1
              /\ Len(scr[i].emitted) >= 8


\* the descriptors of the family a decoded detail status selects
FamilyOf(ms) ==
    IF ms.Mode = "journal" /\ ms.ReplayingStatus # Nil THEN JournalNames
    ELSE IF ms.Mode = "snapshot" /\ ms.SnapshotStatus # Nil THEN SnapshotNames
    ELSE <<>>

(* C14: in the mode-list build a detail call is made for a visited image    *)
(* exactly when its pool-level mode is journal or snapshot, so the calls    *)
(* after the first are those of the journal/snapshot images in list order;  *)
(* once an image with a decoded status is handled, its samples are the      *)
(* family of the detail status's own mode, whatever the pool-level mode     *)
(* said, and none when the detail mode is neither journal nor snapshot.     *)
C14_FilterThenMapByDetailMode ==
    \A i \in Ids :
        LET s     == scr[i]
            known == SelectSeq(s.iter, LAMBDA e : KnownMode(e.img.Mode))
        IN  variant = "modelist" =>
              /\ \A k \in 1..Len(s.iter) :
                    LET e == s.iter[k] IN
                    /\ e.called <=> KnownMode(e.img.Mode)
                    /\ (DetailOK(e) /\ k < s.idx) =>
                          /\ Descs(SamplesFor(s, e.img.Name)) = FamilyOf(StatusOf(e))
                          /\ ~KnownMode(StatusOf(e).Mode) =>
                                SamplesFor(s, e.img.Name) = <<>>
              /\ s.pc # "detailCall" =>
                    DetailCalls(s) = [k \in 1..Len(known) |->
                                        DetailArgs(variant, s.cluster, Pool, known[k].img.Name)]

\* the list says disabled for the first image, which is not called for, and
\* journal for the second, whose detail status says snapshot: one detail call
\* and the six snapshot samples
C14_Witness ==
    \E i \in Ids :
        /\ variant = "modelist" /\ scr[i].pc = "done"
        /\ Len(scr[i].iter) = 2 /\ Len(scr[i].calls) = 2
        /\ scr[i].iter[1].img.Mode = "disabled" /\ ~scr[i].iter[1].called
        /\ scr[i].iter[2].img.Mode = "journal" /\ DetailOK(scr[i].iter[2])
        /\ StatusOf(scr[i].iter[2]).Mode = "snapshot"
        /\ Descs(scr[i].emitted) = SnapshotNames


\* a decoded status whose mode names a sub-object it does not carry
SubObjectMissing(ms) ==
    \/ ms.Mode = "journal" /\ ms.ReplayingStatus = Nil
    \/ ms.Mode = "snapshot" /\ ms.SnapshotStatus = Nil

(* C15: in the two-call builds an image whose decoded status says journal   *)
(* without a replaying status, or snapshot without a snapshot status, gets  *)
(* no sample, also when the sub-object of the other mode is there; the loop *)
(* has gone on to the next position, Collect has not returned early and the *)
(* images after it are visited.                                             *)
C15_MissingSubObjectSkipped ==
    \A i \in Ids :
        LET s == scr[i] IN
        TwoCall(variant) =>
          \A k \in 1..Len(s.iter) :
             LET e == s.iter[k] IN
             (DetailOK(e) /\ SubObjectMissing(StatusOf(e))) =>
                /\ SamplesFor(s, e.img.Name) = <<>>
                /\ s.idx > k
                /\ ~s.aborted
                /\ s.pc \in {"done", "idle"} => Len(s.iter) = Len(s.images)

\* the first image's status says journal and carries only a snapshot status:
\* nothing sent for it; the second image after it got its whole set
C15_Witness ==
    \E i \in Ids :
        /\ TwoCall(variant) /\ scr[i].pc = "done" /\ Len(scr[i].iter) = 2
        /\ DetailOK(scr[i].iter[1])
        /\ StatusOf(scr[i].iter[1]).Mode = "journal"
        /\ StatusOf(scr[i].iter[1]).ReplayingStatus = Nil
        /\ StatusOf(scr[i].iter[1]).SnapshotStatus # Nil
        /\ DetailOK(scr[i].iter[2])
        /\ Len(scr[i].emitted) >= 4
        /\ \A k \in 1..Len(scr[i].emitted) : ImageOf(scr[i].emitted[k]) = "vm2"


\* the calls of a scrape that have not returned
InFlight(s) == Len(s.calls) - (IF s.poolRet = Nil THEN 0 ELSE 1)
                            - Cardinality({ k \in 1..Len(s.iter) : s.iter[k].called })

\* the position of an image in the list of the pool-level payload
PosOf(s, name) == CHOOSE k \in 1..Len(s.images) : s.images[k].Name = name

(* C16: a scrape has at most one call in flight, and one exactly while it   *)
(* waits for the pool-level or a detail call; when the detail call of an    *)
(* image is made nothing is waiting to be sent, every image before it has   *)
(* been visited and has its whole family or, skipped, no sample, and no     *)
(* sample of that image or a later one exists; the samples sent are grouped *)
(* by image in the order of the list.                                       *)
C16_SequentialInListOrder ==
    \A i \in Ids :
        LET s == scr[i] IN
        /\ InFlight(s) = (IF s.pc \in {"poolCall", "detailCall"} THEN 1 ELSE 0)
        /\ s.pc = "detailCall" =>
              /\ s.pending = <<>>
              /\ Len(s.iter) = s.idx - 1
              /\ \A k \in 1..(s.idx - 1) :
                    Descs(SamplesFor(s, s.images[k].Name)) =
                       (IF DetailOK(s.iter[k]) THEN FamilyOf(StatusOf(s.iter[k])) ELSE <<>>)
              /\ \A k \in s.idx..Len(s.images) :
                    SamplesFor(s, s.images[k].Name) = <<>>
        /\ \A a, b \in 1..Len(s.emitted) :
              a < b => PosOf(s, ImageOf(s.emitted[a])) <= PosOf(s, ImageOf(s.emitted[b]))
        /\ \A a \in 1..Len(s.emitted) : PosOf(s, ImageOf(s.emitted[a])) <= s.idx

\* the detail call of the second image is in flight after the four samples of
\* the first were sent: two calls made, one returned
C16_Witness ==
    \E i \in Ids :
        /\ TwoCall(variant) /\ scr[i].pc = "detailCall" /\ scr[i].idx = 2
        /\ Len(scr[i].calls) = 3
        /\ DetailOK(scr[i].iter[1])
        /\ Descs(scr[i].emitted) = JournalNames
        /\ \A k \in 1..Len(scr[i].emitted) : ImageOf(scr[i].emitted[k]) = "vm1"

====
